---- MODULE Spec2Model ----
(***************************************************************************)
(* Model of download.py: the crawl over (year, country) cells that keeps   *)
(* one CSV shard per cell on disk, and the merge of all shards into one    *)
(* table sorted by year, descending.                                       *)
(*                                                                         *)
(* Text is a sequence of one-character strings, so that formatting and     *)
(* splitting a file name are computed as Python computes them.             *)
(***************************************************************************)
EXTENDS Integers, Sequences, FiniteSets, TLC

\* ------------------------------------------------------------------ bounds
\* Runs of main() over the same disk.
MaxRuns == 2
\* Records of one cell's result table.
MaxRows == 2

\* ------------------------------------------------------- text and values
Digits == <<"0", "1", "2", "3", "4", "5", "6", "7", "8", "9">>

Range(s) == {s[k] : k \in DOMAIN s}

\* str(n) of a non-negative integer.
RECURSIVE NatStr(_)
NatStr(n) == IF n < 10 THEN <<Digits[n + 1]>>
             ELSE NatStr(n \div 10) \o <<Digits[(n % 10) + 1]>>

\* '{}'.format(n) of an integer.
IntStr(n) == IF n < 0 THEN <<"-">> \o NatStr(-n) ELSE NatStr(n)

DigitValue(ch) == CHOOSE d \in 0..9 : Digits[d + 1] = ch

RECURSIVE NatOf(_)
NatOf(s) == IF s = <<>> THEN 0
            ELSE 10 * NatOf(SubSeq(s, 1, Len(s) - 1)) + DigitValue(s[Len(s)])

\* Whether int(s) succeeds (an optional sign, then at least one digit).
IsIntegerText(s) ==
    LET body == IF s # <<>> /\ s[1] = "-" THEN Tail(s) ELSE s
    IN  body # <<>> /\ \A k \in DOMAIN body : body[k] \in Range(Digits)

\* int(s), for a text IsIntegerText accepts.
IntOf(s) == IF s[1] = "-" THEN 0 - NatOf(Tail(s)) ELSE NatOf(s)

\* s.split(sep) for a one-character separator: always at least one piece.
RECURSIVE Split(_, _)
Split(s, sep) ==
    IF \A k \in DOMAIN s : s[k] # sep THEN <<s>>
    ELSE LET p == CHOOSE k \in DOMAIN s : s[k] = sep /\ \A m \in 1..(k - 1) : s[m] # sep
         IN  <<SubSeq(s, 1, p - 1)>> \o Split(SubSeq(s, p + 1, Len(s)), sep)

EndsWith(s, suffix) ==
    /\ Len(s) >= Len(suffix)
    /\ SubSeq(s, Len(s) - Len(suffix) + 1, Len(s)) = suffix

\* Python values whose type matters: an int and a str are never equal.
PyInt(n) == [type |-> "int", n |-> n, s |-> <<>>]
PyStr(s) == [type |-> "str", n |-> 0, s |-> s]

None == "None"

\* ------------------------------------------------------------- constants
\* FIELDS: the columns of one cell's table, in order.
FIELDS == <<"rk", "athlete", "gender", "age", "sport",
            "gold", "silver", "bronze", "total">>

\* The three columns FULL_FIELDS starts with.
KeyFields == <<"year", "country_code", "country_name">>

FullFieldsWithRank == KeyFields \o FIELDS

\* FULL_FIELDS: year, country_code, country_name, then FIELDS, with rk deleted.
FULL_FIELDS == SelectSeq(KeyFields \o FIELDS, LAMBDA f : f # "rk")

IntegerFields == {"rk", "age", "gold", "silver", "bronze", "total", "year"}

CsvSuffix == <<".", "c", "s", "v">>

\* _make_filename: '{}-{}.csv'.format(year, country_code)
\* One file per year.
MakeFilenameYearOnly(year, country_code) == IntStr(year) \o CsvSuffix

_make_filename(year, country_code) ==
    IntStr(year) \o <<"-">> \o country_code \o CsvSuffix

ParseFilenameKeepSuffix(filename) ==
    LET parts == Split(filename, "-")
    IN  [k \in DOMAIN parts |-> PyStr(parts[k])]

\* _parse_filename: filename.name.split('.')[0].split('-'), a list of str.
_parse_filename(filename) ==
    LET parts == Split(Split(filename, ".")[1], "-")
    IN  [k \in DOMAIN parts |-> PyStr(parts[k])]

\* --------------------------------------------------------------- the site
USA == <<"U", "S", "A">>
BRA == <<"B", "R", "A">>
ZZZ == <<"Z", "Z", "Z">>

\* What the years index can list, in page order.
YearPool == <<1996, 2000>>

\* What REGEXP_COUNTRY.findall can return on the countries index: (code, name).
CountryPool == <<<<USA, "United States">>, <<BRA, "Brazil">>>>

Prefixes(s) == {SubSeq(s, 1, n) : n \in 0..Len(s)}

Cells == {<<YearPool[a], CountryPool[b][1]>> : a \in DOMAIN YearPool, b \in DOMAIN CountryPool}

\* Country = namedtuple('Country', ['code', 'name'])
Country(code, name) == [code |-> code, name |-> name]

\* The table rows.import_from_html returns for a cell's page: MaxRows records
\* typed per FIELDS.
Table(year, country_code) ==
    [k \in 1..MaxRows |->
        [rk |-> k, athlete |-> <<year, country_code, k>>, gender |-> "F",
         age |-> 20 + k, sport |-> "Athletics",
         gold |-> 1, silver |-> 0, bronze |-> 0, total |-> 1]]

\* ./data as the first run can find it: empty, or with one shard file left by
\* a crawl of an earlier state of the site: of a country the countries index no
\* longer lists, or of the last year of YearPool (which the years index may no
\* longer list).
StrayDisks ==
    {<<>>,
     [f \in {_make_filename(2050, ZZZ)} |-> Table(2050, ZZZ)],
     [f \in {_make_filename(2000, USA)} |-> Table(2000, USA)]}

NoOutput == [exists |-> FALSE, columns |-> <<>>, rows |-> <<>>]

VARIABLES
    webYears,           \* the years index page
    webCountries,       \* the matches on the countries index page
    resp,               \* per cell: how its URL resolved ("unknown" before any fetch)
    disk,               \* ./data: file name -> records of the file
    dataDir,            \* ./data exists
    outDir,             \* ./output exists
    output,             \* ./output/all-games.csv
    run,                \* number of the current run of main()
    pc,                 \* position of main()
    outcome,            \* how the run ended ("running" while it has not)
    years,              \* download_all's years
    countries_by_code,  \* the dict of the current function, in insertion order
    i,                  \* index of the current year in years
    j,                  \* index of the current country in countries_by_code
    games,              \* merge_files' table: its rows so far
    remaining,          \* files the glob has not yielded yet
    fetched,            \* cells whose URL this run requested
    crawled,            \* download_all returned in this run
    prevCrawled,        \* download_all returned in the previous run
    outputBefore,       \* output when this run started
    filesBefore,        \* the files ./data held when this run started
    prevMerge           \* the last merge completed by an earlier run: its shards, its output

vars == <<webYears, webCountries, resp, disk, dataDir, outDir, output, run, pc,
          outcome, years, countries_by_code, i, j, games, remaining, fetched,
          crawled, prevCrawled, outputBefore, filesBefore, prevMerge>>

web == <<webYears, webCountries>>
locals == <<years, countries_by_code, i, j, games, remaining>>
history == <<fetched, crawled, prevCrawled, outputBefore, filesBefore, prevMerge>>

NoMerge == [done |-> FALSE, shards |-> <<>>, out |-> NoOutput]

Init ==
    /\ webYears \in Prefixes(YearPool)
    /\ webCountries \in Prefixes(CountryPool)
    /\ resp = [c \in Cells |-> "unknown"]
    /\ disk \in StrayDisks
    /\ dataDir = (disk # <<>>)
    /\ outDir = FALSE
    /\ output = NoOutput
    /\ run = 1
    /\ pc = "start"
    /\ outcome = "running"
    /\ years = <<>>
    /\ countries_by_code = <<>>
    /\ i = 1
    /\ j = 1
    /\ games = <<>>
    /\ remaining = {}
    /\ fetched = {}
    /\ crawled = FALSE
    /\ prevCrawled = FALSE
    /\ outputBefore = NoOutput
    /\ filesBefore = DOMAIN disk
    /\ prevMerge = NoMerge

\* ------------------------------------------------------------- discovery
\* {result[0]: Country(*result) for result in matches}: a repeated code keeps
\* its first position and takes the last value.
RECURSIVE DictOf(_)
DictOf(matches) ==
    IF matches = <<>> THEN <<>>
    ELSE LET init == DictOf(SubSeq(matches, 1, Len(matches) - 1))
             last == matches[Len(matches)]
             c    == Country(last[1], last[2])
         IN  IF \E k \in DOMAIN init : init[k].code = c.code
             THEN [k \in DOMAIN init |-> IF init[k].code = c.code THEN c ELSE init[k]]
             ELSE Append(init, c)

\* download_countries, when requests.get returns.
download_countries == DictOf(webCountries)

\* download_years, when requests.get returns.
download_years == webYears

HasKey(dict, code) == \E k \in DOMAIN dict : dict[k].code = code

\* dict[code], for a code HasKey accepts.
Lookup(dict, code) == dict[CHOOSE k \in DOMAIN dict : dict[k].code = code]

\* --------------------------------------------------------------- the run
Running == outcome = "running"

\* The run ends: with an exception's name, "interrupted", or "ok".
Stop(how) ==
    /\ pc' = "stopped"
    /\ outcome' = how

\* download_all: create ./data if it is missing.
DownloadAllMkdir ==
    /\ pc = "start"
    /\ dataDir' = TRUE
    /\ pc' = "years"
    /\ UNCHANGED <<web, resp, disk, outDir, output, run, outcome, locals, history>>

\* years = download_years()
DownloadYears ==
    /\ pc = "years"
    /\ years' = download_years
    /\ pc' = "countries"
    /\ UNCHANGED <<web, resp, disk, dataDir, outDir, output, run, outcome,
                   countries_by_code, i, j, games, remaining, history>>

\* countries_by_code = download_countries(), and the loops start.
DownloadCountries ==
    /\ pc = "countries"
    /\ countries_by_code' = download_countries
    /\ i' = 1
    /\ j' = 1
    /\ pc' = "crawl"
    /\ UNCHANGED <<web, resp, disk, dataDir, outDir, output, run, outcome,
                   years, games, remaining, history>>

\* requests.get raises on an index page (no handler anywhere): the run dies.
IndexFetchFails ==
    /\ pc \in {"years", "countries", "merge"}
    /\ Stop("ConnectionError")
    /\ outDir' = (outDir \/ pc = "merge")
    /\ UNCHANGED <<web, resp, disk, dataDir, output, run, locals, history>>

\* The loops of download_all have a cell left.
InCell == pc = "crawl" /\ i <= Len(years) /\ countries_by_code # <<>>

CellYear == years[i]
CellCode == countries_by_code[j].code
CellFile == _make_filename(CellYear, CellCode)

\* No check of the file at all.
ExistsNever(filename) == FALSE

\* filename.exists()
Exists(filename) == filename \in DOMAIN disk

\* The inner loop left after its first country.
AdvanceSkippingCountry ==
    /\ i' = i + 1
    /\ j' = 1

\* The next iteration of: for year in years: for country in countries.values()
Advance ==
    IF j < Len(countries_by_code)
    THEN i' = i /\ j' = j + 1
    ELSE i' = i + 1 /\ j' = 1

\* disk with file `filename` holding `records`.
WithFile(filename, records) ==
    [f \in DOMAIN disk \cup {filename} |-> IF f = filename THEN records ELSE disk[f]]

\* The cell's URL is requested.
Request == fetched' = fetched \cup {<<CellYear, CellCode>>}

\* A file that exists is downloaded and written again.
SkipRewritesShard ==
    /\ InCell
    /\ Exists(CellFile)
    /\ disk' = WithFile(CellFile, Table(CellYear, CellCode))
    /\ Advance
    /\ UNCHANGED <<web, resp, dataDir, outDir, output, run, pc, outcome,
                   years, countries_by_code, games, remaining, history>>

\* A file that exists is checked against the network before it is skipped.
SkipRevalidates ==
    /\ InCell
    /\ Exists(CellFile)
    /\ Request
    /\ Advance
    /\ UNCHANGED <<web, resp, disk, dataDir, outDir, output, run, pc, outcome,
                   years, countries_by_code, games, remaining,
                   crawled, prevCrawled, outputBefore, filesBefore, prevMerge>>

\* download_game_data_for_country, lines 72-75: the file exists.
SkipAlreadyDownloaded ==
    /\ InCell
    /\ Exists(CellFile)
    /\ Advance
    /\ UNCHANGED <<web, resp, disk, dataDir, outDir, output, run, pc, outcome,
                   years, countries_by_code, games, remaining, history>>

\* A cell that did not play written as a shard of zero-valued records.
FetchNotPlayedWritesShard ==
    /\ InCell
    /\ ~Exists(CellFile)
    /\ resp[<<CellYear, CellCode>>] \in {"unknown", "404"}
    /\ resp' = [resp EXCEPT ![<<CellYear, CellCode>>] = "404"]
    /\ Request
    /\ disk' = WithFile(CellFile,
                        <<[rk |-> 0, athlete |-> <<>>, gender |-> "", age |-> 0,
                           sport |-> "", gold |-> 0, silver |-> 0, bronze |-> 0,
                           total |-> 0]>>)
    /\ Advance
    /\ UNCHANGED <<web, dataDir, outDir, output, run, pc, outcome,
                   years, countries_by_code, games, remaining,
                   crawled, prevCrawled, outputBefore, filesBefore, prevMerge>>

\* Lines 77-81: the URL resolves to the 404 page; nothing is written.
FetchNotPlayed ==
    /\ InCell
    /\ ~Exists(CellFile)
    /\ resp[<<CellYear, CellCode>>] \in {"unknown", "404"}
    /\ resp' = [resp EXCEPT ![<<CellYear, CellCode>>] = "404"]
    /\ Request
    /\ Advance
    /\ UNCHANGED <<web, disk, dataDir, outDir, output, run, pc, outcome,
                   years, countries_by_code, games, remaining,
                   crawled, prevCrawled, outputBefore, filesBefore, prevMerge>>

\* Line 78: requests.get raises; the exception leaves main.
FetchFails ==
    /\ InCell
    /\ ~Exists(CellFile)
    /\ Request
    /\ Stop("ConnectionError")
    /\ UNCHANGED <<web, resp, disk, dataDir, outDir, output, run, locals,
                   crawled, prevCrawled, outputBefore, filesBefore, prevMerge>>

\* Lines 83-86: the page is parsed into the table.
FetchParsed ==
    /\ InCell
    /\ ~Exists(CellFile)
    /\ resp[<<CellYear, CellCode>>] \in {"unknown", "ok"}
    /\ resp' = [resp EXCEPT ![<<CellYear, CellCode>>] = "ok"]
    /\ Request
    /\ pc' = "write"
    /\ UNCHANGED <<web, disk, dataDir, outDir, output, run, outcome, locals,
                   crawled, prevCrawled, outputBefore, filesBefore, prevMerge>>

\* The file is opened for writing before the page is parsed.
ParseFailsLeavesFile ==
    /\ InCell
    /\ ~Exists(CellFile)
    /\ resp[<<CellYear, CellCode>>] \in {"unknown", "ok"}
    /\ resp' = [resp EXCEPT ![<<CellYear, CellCode>>] = "ok"]
    /\ Request
    /\ disk' = WithFile(CellFile, <<>>)
    /\ Stop("ParseError")
    /\ UNCHANGED <<web, dataDir, outDir, output, run, locals,
                   crawled, prevCrawled, outputBefore, filesBefore, prevMerge>>

\* Lines 84-86: rows.import_from_html raises; the exception leaves main.
ParseFails ==
    /\ InCell
    /\ ~Exists(CellFile)
    /\ resp[<<CellYear, CellCode>>] \in {"unknown", "ok"}
    /\ resp' = [resp EXCEPT ![<<CellYear, CellCode>>] = "ok"]
    /\ Request
    /\ Stop("ParseError")
    /\ UNCHANGED <<web, disk, dataDir, outDir, output, run, locals,
                   crawled, prevCrawled, outputBefore, filesBefore, prevMerge>>

\* The table is exported to a file that is not the cell's.
ExportShardNowhere ==
    /\ pc = "write"
    /\ pc' = "crawl"
    /\ Advance
    /\ UNCHANGED <<web, resp, disk, dataDir, outDir, output, run, outcome,
                   years, countries_by_code, games, remaining, history>>

\* Line 87: rows.export_to_csv writes the whole table to the file.
ExportShard ==
    /\ pc = "write"
    /\ disk' = WithFile(CellFile, Table(CellYear, CellCode))
    /\ pc' = "crawl"
    /\ Advance
    /\ UNCHANGED <<web, resp, dataDir, outDir, output, run, outcome,
                   years, countries_by_code, games, remaining, history>>

\* Line 87, the process killed while export_to_csv writes: the file is open
\* at its final path and holds the records written so far.
KilledInExportShard ==
    /\ pc = "write"
    /\ \E n \in 0..(MaxRows - 1) :
          disk' = WithFile(CellFile, SubSeq(Table(CellYear, CellCode), 1, n))
    /\ Stop("interrupted")
    /\ UNCHANGED <<web, resp, dataDir, outDir, output, run, locals, history>>

\* download_all returns from inside its loops.
DownloadAllReturnsEarly ==
    /\ pc = "crawl"
    /\ pc' = "merge"
    /\ crawled' = TRUE
    /\ UNCHANGED <<web, resp, disk, dataDir, outDir, output, run, outcome, locals,
                   fetched, prevCrawled, outputBefore, filesBefore, prevMerge>>

\* The loops of download_all end; main calls merge_files.
DownloadAllReturns ==
    /\ pc = "crawl"
    /\ ~InCell
    /\ pc' = "merge"
    /\ crawled' = TRUE
    /\ UNCHANGED <<web, resp, disk, dataDir, outDir, output, run, outcome, locals,
                   fetched, prevCrawled, outputBefore, filesBefore, prevMerge>>

\* The process is killed between two steps.
Interrupt ==
    /\ Running
    /\ pc \in {"start", "years", "countries", "crawl", "merge", "merge_loop"}
    /\ Stop("interrupted")
    /\ UNCHANGED <<web, resp, disk, dataDir, outDir, output, run, locals, history>>

\* ----------------------------------------------------------------- merge
\* data_path.glob('*.csv'): the files of ./data the pattern matches.
Glob == {f \in DOMAIN disk : EndsWith(f, CsvSuffix)}

\* Lines 129-133: the row as a dict, tagged with the file's year and country,
\* without rk. The year is the text cut from the file name.
RowData(row, year, country_code, country_name) ==
    [f \in (Range(FIELDS) \cup Range(KeyFields)) \ {"rk"} |->
        IF f = "year" THEN year
        ELSE IF f = "country_code" THEN PyStr(country_code)
        ELSE IF f = "country_name" THEN PyStr(country_name)
        ELSE IF f \in IntegerFields THEN PyInt(row[f])
        ELSE PyStr(row[f])]

\* IntegerField.deserialize / TextField.deserialize of a value that converts.
Deserialize(f, value) ==
    IF f \in IntegerFields
    THEN (IF value.type = "int" THEN value.n ELSE IntOf(value.s))
    ELSE value.s

\* Table.append(data): one value per field of the table, data.get(field).
MakeRow(fields, data) ==
    [f \in Range(fields) |->
        IF f \in DOMAIN data THEN Deserialize(f, data[f]) ELSE None]

\* The first record of a file taken for its header.
RowsOfFileSkipsFirst(fields, filename, year, country) ==
    [k \in 1..(Len(disk[filename]) - 1) |->
        MakeRow(fields, RowData(disk[filename][k + 1], year, country.code, country.name))]

\* Lines 122-134 for one file: its records as rows of the merged table.
RowsOfFile(fields, filename, year, country) ==
    [k \in DOMAIN disk[filename] |->
        MakeRow(fields, RowData(disk[filename][k], year, country.code, country.name))]

\* The exception lines 119-134 raise for a file, or "none".
\* A file whose year download_all did not list is refused.
MergeErrorChecksPeriod(filename) ==
    LET parts == _parse_filename(filename)
    IN  IF Len(parts) # 2 THEN "ValueError"
        ELSE IF ~HasKey(countries_by_code, parts[2].s) THEN "KeyError"
        ELSE IF disk[filename] # <<>> /\ ~IsIntegerText(parts[1].s) THEN "ValueError"
        ELSE IF IsIntegerText(parts[1].s) /\ IntOf(parts[1].s) \notin Range(years)
             THEN "ValueError"
        ELSE "none"

MergeError(filename) ==
    LET parts == _parse_filename(filename)
    IN  IF Len(parts) # 2 THEN "ValueError"
        ELSE IF ~HasKey(countries_by_code, parts[2].s) THEN "KeyError"
        ELSE IF disk[filename] # <<>> /\ ~IsIntegerText(parts[1].s) THEN "ValueError"
        ELSE "none"

\* Where a row goes in rows sorted by year, descending: after every row whose
\* year is not smaller (list.sort(reverse=True) keeps equal keys in order).
RECURSIVE Insert(_, _)
Insert(sorted, row) ==
    IF sorted = <<>> THEN <<row>>
    ELSE IF sorted[1].year >= row.year THEN <<sorted[1]>> \o Insert(Tail(sorted), row)
    ELSE <<row>> \o sorted

RECURSIVE SortByYearDescending(_)
SortByYearDescending(rows) ==
    IF rows = <<>> THEN <<>>
    ELSE Insert(SortByYearDescending(SubSeq(rows, 1, Len(rows) - 1)), rows[Len(rows)])

OrderByNothing(rows) == rows

\* games.order_by('-year')
order_by(rows) == SortByYearDescending(rows)

OutputAfterShardPartial(rows) == [exists |-> TRUE, columns |-> FULL_FIELDS, rows |-> rows]

\* The output file after one more shard is merged: merge_files writes nothing
\* inside its loop.
OutputAfterShard(rows) == output

\* Lines 112-116: create ./output, download the countries, an empty table.
MergeStart ==
    /\ pc = "merge"
    /\ outDir' = TRUE
    /\ countries_by_code' = download_countries
    /\ games' = <<>>
    /\ remaining' = Glob
    /\ pc' = "merge_loop"
    /\ UNCHANGED <<web, resp, disk, dataDir, output, run, outcome, years, i, j, history>>

\* Lines 118-134 for the file the glob yields next (in no particular order).
MergeShard(filename) ==
    /\ pc = "merge_loop"
    /\ filename \in remaining
    /\ MergeError(filename) = "none"
    /\ LET parts   == _parse_filename(filename)
           country == Lookup(countries_by_code, parts[2].s)
       IN  games' = games \o RowsOfFile(FULL_FIELDS, filename, parts[1], country)
    /\ output' = OutputAfterShard(games')
    /\ remaining' = remaining \ {filename}
    /\ UNCHANGED <<web, resp, disk, dataDir, outDir, run, pc, outcome,
                   years, countries_by_code, i, j, history>>

\* A file that cannot be merged is passed over.
MergeShardSkipsFile(filename) ==
    /\ pc = "merge_loop"
    /\ filename \in remaining
    /\ MergeError(filename) # "none"
    /\ remaining' = remaining \ {filename}
    /\ UNCHANGED <<web, resp, disk, dataDir, outDir, output, run, pc, outcome,
                   years, countries_by_code, i, j, games, history>>

\* Lines 119-134 raise for the file the glob yields next: the run dies.
MergeShardFails(filename) ==
    /\ pc = "merge_loop"
    /\ filename \in remaining
    /\ MergeError(filename) # "none"
    /\ Stop(MergeError(filename))
    /\ UNCHANGED <<web, resp, disk, dataDir, outDir, output, run, locals, history>>

\* Lines 135-136: sort, then write the output file.
ExportMerged ==
    /\ pc = "merge_loop"
    /\ remaining = {}
    /\ games' = order_by(games)
    /\ output' = [exists |-> TRUE, columns |-> FULL_FIELDS, rows |-> games']
    /\ Stop("ok")
    /\ UNCHANGED <<web, resp, disk, dataDir, outDir, run, years, countries_by_code,
                   i, j, remaining, history>>

\* Line 136, the process killed while the output is written: the file holds
\* the rows written so far.
KilledInExportMerged ==
    /\ pc = "merge_loop"
    /\ remaining = {}
    /\ games' = order_by(games)
    /\ \E n \in 0..(Len(games) - 1) :
          output' = [exists |-> TRUE, columns |-> FULL_FIELDS, rows |-> SubSeq(games', 1, n)]
    /\ Stop("interrupted")
    /\ UNCHANGED <<web, resp, disk, dataDir, outDir, run, years, countries_by_code,
                   i, j, remaining, history>>

\* main() is started again, on the disk the last run left.
StartRun ==
    /\ pc = "stopped"
    /\ run < MaxRuns
    /\ run' = run + 1
    /\ pc' = "start"
    /\ outcome' = "running"
    /\ years' = <<>>
    /\ countries_by_code' = <<>>
    /\ i' = 1
    /\ j' = 1
    /\ games' = <<>>
    /\ remaining' = {}
    /\ fetched' = {}
    /\ crawled' = FALSE
    /\ prevCrawled' = crawled
    /\ outputBefore' = output
    /\ filesBefore' = DOMAIN disk
    /\ prevMerge' = IF outcome = "ok"
                    THEN [done |-> TRUE, shards |-> disk, out |-> output]
                    ELSE prevMerge
    /\ UNCHANGED <<web, resp, disk, dataDir, outDir, output>>

Next ==
    \/ DownloadAllMkdir
    \/ DownloadYears
    \/ DownloadCountries
    \/ IndexFetchFails
    \/ SkipAlreadyDownloaded
    \/ FetchNotPlayed
    \/ FetchFails
    \/ FetchParsed
    \/ ParseFails
    \/ ExportShard
    \/ KilledInExportShard
    \/ DownloadAllReturns
    \/ Interrupt
    \/ MergeStart
    \/ \E f \in remaining : MergeShard(f)
    \/ \E f \in remaining : MergeShardFails(f)
    \/ ExportMerged
    \/ KilledInExportMerged
    \/ StartRun

Spec == Init /\ [][Next]_vars

\* main() is started again, as often as one likes: the runs are not counted.
Rerun ==
    /\ pc = "stopped"
    /\ pc' = "start"
    /\ outcome' = "running"
    /\ years' = <<>>
    /\ countries_by_code' = <<>>
    /\ i' = 1
    /\ j' = 1
    /\ games' = <<>>
    /\ remaining' = {}
    /\ fetched' = {}
    /\ crawled' = FALSE
    /\ prevCrawled' = crawled
    /\ outputBefore' = output
    /\ filesBefore' = DOMAIN disk
    /\ prevMerge' = IF outcome = "ok"
                    THEN [done |-> TRUE, shards |-> disk, out |-> output]
                    ELSE prevMerge
    /\ UNCHANGED <<web, resp, disk, dataDir, outDir, output, run>>

\* The steps of main() up to the return of download_all, run after run.
NextCrawl ==
    \/ DownloadAllMkdir
    \/ DownloadYears
    \/ DownloadCountries
    \/ IndexFetchFails
    \/ SkipAlreadyDownloaded
    \/ FetchNotPlayed
    \/ FetchFails
    \/ FetchParsed
    \/ ParseFails
    \/ ExportShard
    \/ KilledInExportShard
    \/ DownloadAllReturns
    \/ Interrupt
    \/ Rerun

\* The steps among them that are neither a failure nor a kill.
CrawlStep ==
    \/ DownloadAllMkdir
    \/ DownloadYears
    \/ DownloadCountries
    \/ SkipAlreadyDownloaded
    \/ FetchNotPlayed
    \/ FetchParsed
    \/ ExportShard
    \/ DownloadAllReturns
    \/ Rerun

\* The program run again and again until a run's download_all returns: a
\* process that runs takes its next step unless it fails or is killed, and a
\* run that ended is followed by another.
LiveSpec == Init /\ [][NextCrawl]_vars /\ WF_vars(CrawlStep)

TypeOK ==
    /\ pc \in {"start", "years", "countries", "crawl", "write", "merge",
               "merge_loop", "stopped"}
    /\ outcome \in {"running", "ok", "interrupted", "ConnectionError",
                    "ParseError", "KeyError", "ValueError"}
    /\ (pc = "stopped") = (outcome # "running")
    /\ run \in 1..MaxRuns
    /\ \A c \in Cells : resp[c] \in {"unknown", "404", "ok"}
    /\ fetched \subseteq Cells

\* ---------------------------------------------------------------- claims
ShardOf(cell) == _make_filename(cell[1], cell[2])

\* The cells of the cross-product the site lists.
WebCells == {c \in Cells : c[1] \in Range(webYears)
                           /\ \E k \in DOMAIN webCountries : webCountries[k][1] = c[2]}

\* The rows of a table tagged with a cell's year and country.
RowsFor(rows, cell) ==
    {k \in DOMAIN rows : rows[k].year = cell[1] /\ rows[k].country_code = cell[2]}

\* C1, as stated: in a run that follows a run whose download_all returned, no
\* cell's URL is requested.
C1_SecondRunFetchesNothing ==
    (run > 1 /\ prevCrawled) => fetched = {}

\* C1, amended: in a run that follows a run whose download_all returned, every
\* cell that has a shard file is skipped and the only cells requested are those
\* whose URL resolved to the 404 page; when download_all returns it has
\* requested exactly those cells, and it writes no shard.
C1_SecondRunFetchesOnlyNotPlayed ==
    (run > 1 /\ prevCrawled) =>
        /\ \A c \in fetched : resp[c] = "404" /\ ~Exists(ShardOf(c))
        /\ pc # "write"
        /\ crawled => fetched = {c \in WebCells : resp[c] = "404"}

C1_Witness ==
    /\ run > 1
    /\ prevCrawled
    /\ crawled
    /\ fetched # {}
    /\ \E c \in WebCells : Exists(ShardOf(c))

\* C2: every shard file of a cell that is on disk holds the whole table parsed
\* from the cell's page, also after the process was killed.
C2_ShardsComplete ==
    \A c \in Cells : Exists(ShardOf(c)) => disk[ShardOf(c)] = Table(c[1], c[2])

\* C3: a cell whose URL resolved to the 404 page has no shard file, and neither
\* the merged table nor the output file has a row of its year and country.
C3_NotPlayedHasNoShardNoRow ==
    \A c \in Cells : resp[c] = "404" =>
        /\ ~Exists(ShardOf(c))
        /\ RowsFor(games, c) = {}
        /\ RowsFor(output.rows, c) = {}

C3_Witness ==
    /\ outcome = "ok"
    /\ output.rows # <<>>
    /\ \E c \in WebCells : resp[c] = "404"

\* Periods and codes the round trip is computed for, besides the site's.
RoundTripYears == {0, 7, 10, 896, 1996, 2000, 2016, 2050}
RoundTripCodes == {USA, BRA, ZZZ}

\* C4, as stated: _parse_filename of the path of the current cell is the pair
\* of the cell's integer year and its code.
C4_ParseReturnsPeriodAndCode ==
    InCell => _parse_filename(CellFile) = <<PyInt(CellYear), PyStr(CellCode)>>

\* C4, amended: for a non-negative period and a code of capital letters,
\* _parse_filename of the path _make_filename builds is the two-element list
\* of the period's decimal text and the code; the period comes back as text,
\* and int() of that text is the period.
RoundTripHolds ==
    \A y \in RoundTripYears, c \in RoundTripCodes :
        LET parts == _parse_filename(_make_filename(y, c))
        IN  /\ parts = <<PyStr(IntStr(y)), PyStr(c)>>
            /\ IsIntegerText(parts[1].s)
            /\ IntOf(parts[1].s) = y

C4_ParseReturnsPeriodTextAndCode ==
    /\ RoundTripHolds
    /\ InCell =>
          /\ _parse_filename(CellFile) = <<PyStr(IntStr(CellYear)), PyStr(CellCode)>>
          /\ IntOf(_parse_filename(CellFile)[1].s) = CellYear

C4_Witness ==
    /\ pc = "merge_loop"
    /\ \E c \in WebCells :
          /\ Exists(ShardOf(c))
          /\ ShardOf(c) \notin remaining
          /\ RowsFor(games, c) # {}

\* The shard files whose country code the countries index does not list.
UnknownShards ==
    {f \in Glob : Len(_parse_filename(f)) = 2
                  /\ ~HasKey(download_countries, _parse_filename(f)[2].s)}

\* C5: with a shard of an unknown country on disk, merge_files never completes
\* and never passes that shard over: the loop stops at it with KeyError (the
\* code's UnknownEntityError), which is raised for no other reason.
C5_UnknownEntitySurfaced ==
    /\ UnknownShards # {} =>
          /\ outcome # "ok"
          /\ pc = "merge_loop" => UnknownShards \subseteq remaining
    /\ outcome = "KeyError" => UnknownShards # {}

C5_Witness ==
    /\ outcome = "KeyError"
    /\ UnknownShards # {}
    /\ remaining # Glob

MergeFailed ==
    \/ outcome \in {"KeyError", "ValueError"}
    \/ outcome = "ConnectionError" /\ crawled

\* C6: while merge_files reads the shards, and when it fails, the output file
\* is what it was when the run started; it is written only when no shard is
\* left to read.
C6_NoOutputOnFailedMerge ==
    /\ MergeFailed => output = outputBefore
    /\ pc = "merge_loop" => output = outputBefore
    /\ output # outputBefore => remaining = {} /\ pc = "stopped"

C6_Witness ==
    /\ outcome = "KeyError"
    /\ games # <<>>
    /\ output = outputBefore

\* C7: in the output file, each record's year is at least the next record's.
C7_SortedByYearDescending ==
    \A k \in 1..(Len(output.rows) - 1) : output.rows[k].year >= output.rows[k + 1].year

C7_Witness ==
    /\ outcome = "ok"
    /\ \E k \in 1..(Len(output.rows) - 1) : output.rows[k].year > output.rows[k + 1].year

\* C8: the output's columns are year, country_code, country_name and the shard
\* columns without rk; every record has exactly these fields, so no rk, an
\* integer year and a country code that is not empty.
C8_SchemaIntegrity ==
    output.exists =>
        /\ output.columns = <<"year", "country_code", "country_name", "athlete",
                              "gender", "age", "sport", "gold", "silver",
                              "bronze", "total">>
        /\ \A k \in DOMAIN output.rows :
              /\ DOMAIN output.rows[k] = Range(output.columns)
              /\ "rk" \notin DOMAIN output.rows[k]
              /\ output.rows[k].year \in Int
              /\ output.rows[k].country_code # <<>>

C8_Witness ==
    /\ outcome = "ok"
    /\ Len(output.rows) >= 2

\* C9: a merge completed over the same shard files as the merge before it
\* writes the same output.
C9_MergeDeterministic ==
    (outcome = "ok" /\ prevMerge.done /\ prevMerge.shards = disk) =>
        output = prevMerge.out

\* C10: when the years index or the countries index lists nothing, the run
\* does not go on to the merge and does not complete.
C10_EmptyAxisIsFatal ==
    (pc \in {"merge", "merge_loop"} \/ outcome = "ok") =>
        (years # <<>> /\ webCountries # <<>>)

\* The cell download_all is at.
Cell == <<CellYear, CellCode>>

\* C11: no step deletes a file of ./data or changes what it holds; the set of
\* files only grows, and the steps of merge_files leave ./data as it is.
C11_ShardsDurable ==
    [][/\ \A f \in DOMAIN disk : f \in DOMAIN disk' /\ disk'[f] = disk[f]
       /\ pc \in {"merge", "merge_loop"} => disk' = disk]_vars

C11_Witness ==
    /\ run > 1
    /\ outcome = "ok"
    /\ \E c \in WebCells : ShardOf(c) \in filesBefore /\ disk[ShardOf(c)] # Table(c[1], c[2])
    /\ \E c \in WebCells : Exists(ShardOf(c)) /\ ShardOf(c) \notin filesBefore

\* C12: a step of download_game_data_for_country for a cell whose file exists
\* requests no URL and writes nothing, whatever the file holds and whatever
\* the cell's URL resolves to.
C12_SkipOnExistence ==
    [][(InCell /\ Exists(CellFile)) =>
          /\ fetched' = fetched
          /\ disk' = disk
          /\ resp' = resp
          /\ pc' \in {"crawl", "stopped"}]_vars

C12_Witness ==
    /\ crawled
    /\ \E c \in WebCells :
          /\ Exists(ShardOf(c))
          /\ disk[ShardOf(c)] # Table(c[1], c[2])
          /\ resp[c] = "ok"
          /\ c \notin fetched

\* The cross-product download_all iterates over.
DiscoveredCells ==
    {<<years[a], countries_by_code[b].code>> : a \in DOMAIN years, b \in DOMAIN countries_by_code}

\* C13: once download_all has returned, every cell of the discovered
\* cross-product was visited (its file was there before the run, or its URL
\* was requested); its file exists exactly if it was there before the run or
\* the URL did not resolve to the 404 page; and every file the run created is
\* the file of a cell of the cross-product.
C13_CrawlComplete ==
    crawled =>
        /\ \A c \in DiscoveredCells :
              /\ ShardOf(c) \in filesBefore \/ c \in fetched
              /\ Exists(ShardOf(c)) <=> (ShardOf(c) \in filesBefore \/ resp[c] = "ok")
              /\ ~Exists(ShardOf(c)) => resp[c] = "404"
        /\ DOMAIN disk \ filesBefore \subseteq {ShardOf(c) : c \in DiscoveredCells}

C13_Witness ==
    /\ crawled
    /\ Cardinality(DiscoveredCells) = 4
    /\ \E c \in DiscoveredCells : ShardOf(c) \in filesBefore
    /\ \E c \in DiscoveredCells : resp[c] = "404"
    /\ \E c \in DiscoveredCells : Exists(ShardOf(c)) /\ ShardOf(c) \notin filesBefore

\* The run died in download_game_data_for_country: requests.get or
\* rows.import_from_html raised for a cell.
CellFailed ==
    /\ outcome \in {"ConnectionError", "ParseError"}
    /\ fetched # {}
    /\ ~crawled

\* C14: a run in which the fetch or the parse of a cell raised still goes
\* through the whole cross-product: download_all returns in that run.
C14_CellFailureDoesNotAbort ==
    (outcome \in {"ConnectionError", "ParseError"} /\ fetched # {}) => crawled

\* C15: the step in which a cell's fetch or parse fails leaves ./data as it
\* was, without a file of that cell; starting the next run leaves ./data as it
\* was; and a run requests the URL of a cell it reaches that has no file, and
\* requests and writes nothing for a cell that has one.
C15_FailedCellLeavesNoFile ==
    [][/\ (~CellFailed /\ CellFailed') => (disk' = disk /\ CellFile \notin DOMAIN disk')
       /\ (pc = "stopped" /\ pc' # "stopped") => disk' = disk
       /\ (InCell /\ ~Exists(CellFile) /\ pc' # "stopped") => Cell \in fetched'
       /\ (InCell /\ Exists(CellFile)) => (fetched' = fetched /\ disk' = disk)]_vars

C15_Witness ==
    /\ run > 1
    /\ InCell
    /\ ~Exists(CellFile)
    /\ resp[Cell] = "ok"
    /\ Cell \notin fetched
    /\ \E c \in WebCells : Exists(ShardOf(c)) /\ c # Cell
    /\ i > 1 \/ j > 1

\* The records of the shard files, each named by its file and its position.
ShardRecords == {<<f, k>> : f \in Glob, k \in 1..MaxRows} \cap
                {e \in Glob \X (1..MaxRows) : e[2] \in DOMAIN disk[e[1]]}

\* The merged record a shard record must become: without rk, with the year and
\* the code of the file's name and the name the countries index gives the code.
ExpectedRow(e) ==
    LET parts == _parse_filename(e[1])
        rec   == disk[e[1]][e[2]]
    IN  [year |-> IntOf(parts[1].s),
         country_code |-> parts[2].s,
         country_name |-> Lookup(download_countries, parts[2].s).name,
         athlete |-> rec.athlete, gender |-> rec.gender, age |-> rec.age,
         sport |-> rec.sport, gold |-> rec.gold, silver |-> rec.silver,
         bronze |-> rec.bronze, total |-> rec.total]

\* C16: the output of a completed merge has as many records as the shard
\* files together, and every record occurs in it as often as among the
\* records the shard files must become.
C16_MergeContent ==
    outcome = "ok" =>
        /\ Len(output.rows) = Cardinality(ShardRecords)
        /\ \A r \in Range(output.rows) \cup {ExpectedRow(e) : e \in ShardRecords} :
              Cardinality({k \in DOMAIN output.rows : output.rows[k] = r})
                  = Cardinality({e \in ShardRecords : ExpectedRow(e) = r})

C16_Witness ==
    /\ outcome = "ok"
    /\ Cardinality(Glob) >= 3
    /\ \E f \in Glob : Len(disk[f]) < MaxRows
    /\ \E f \in Glob : Len(disk[f]) = MaxRows

\* Years and codes _make_filename is called with: those of the index pages,
\* and those of the trial values of the round trip.
FilenameCells == Cells \cup (RoundTripYears \X RoundTripCodes)

\* _make_filename gives two different cells two different names.
FilenamesDistinct ==
    \A c \in FilenameCells : \A d \in FilenameCells :
        c # d => ShardOf(c) # ShardOf(d)

C18_PipelineOrdering ==
    [][/\ pc \in {"crawl", "write"} =>
             years = download_years /\ countries_by_code = download_countries
       /\ pc \in {"merge", "merge_loop"} => crawled
       /\ crawled => \A c \in DiscoveredCells : ShardOf(c) \in filesBefore \/ c \in fetched
       /\ output' # output =>
             /\ pc = "merge_loop" /\ remaining = {} /\ crawled
             /\ pc' = "stopped" /\ run' = run
             /\ output'.columns = FULL_FIELDS
             /\ output'.rows \in Prefixes(games')
             /\ outcome' = "ok" => output'.rows = games']_vars

C18_Witness ==
    /\ run > 1
    /\ outcome = "ok"
    /\ outputBefore.exists
    /\ output # outputBefore
    /\ outputBefore.rows # <<>>
    /\ crawled

\* The shard files named after a year the years index does not list and a code
\* the countries index lists.
StalePeriodShards ==
    {f \in Glob :
        LET parts == _parse_filename(f)
        IN  /\ Len(parts) = 2
            /\ HasKey(download_countries, parts[2].s)
            /\ IsIntegerText(parts[1].s)
            /\ IntOf(parts[1].s) \notin Range(webYears)}

\* C20: merge_files raises nothing for a shard file whose year is not among
\* the current years and whose code is known, and a completed merge has its
\* records in the output.
C20_StalePeriodMerged ==
    \A f \in StalePeriodShards :
        /\ pc = "merge_loop" => MergeError(f) = "none"
        /\ outcome \in {"KeyError", "ValueError"} =>
              \E g \in remaining \ StalePeriodShards : MergeError(g) # "none"
        /\ outcome = "ok" =>
              \A k \in DOMAIN disk[f] : ExpectedRow(<<f, k>>) \in Range(output.rows)

C20_Witness ==
    /\ outcome = "ok"
    /\ \E f \in StalePeriodShards :
          /\ disk[f] # <<>>
          /\ ExpectedRow(<<f, 1>>) \in Range(output.rows)
    /\ fetched # {}

\* download_all is about to call download_game_data_for_country for the cell.
AtCell(c) == InCell /\ Cell = c

\* A run attempts the cell: download_game_data_for_country is called for it
\* and its file does not exist, or its URL has been requested.
Attempted(c) ==
    \/ AtCell(c) /\ ~Exists(ShardOf(c))
    \/ c \in fetched

\* A run that ended, ended at a cell it attempted: in the loops of
\* download_all, at a cell whose URL it requested or whose file does not exist
\* (not in discovery, not at a cell it skips, not after the loops).
FailedAtCell ==
    pc = "stopped" =>
        /\ i <= Len(years)
        /\ countries_by_code # <<>>
        /\ Cell \in fetched \/ ~Exists(ShardOf(Cell))

\* The cell's fetch and parse succeeded: its table is parsed and about to be
\* written, or its URL resolved to the 404 page.
FetchedOk(c) ==
    \/ pc = "write" /\ Cell = c
    \/ resp[c] = "404"

\* This run requested the URL of a cell that had succeeded before: the cell had
\* a file when the run started, or the URL had resolved to the 404 page in an
\* earlier run and this run's request of it raised.
RefetchedAfterSuccess(c) ==
    /\ c \in fetched
    /\ \/ ShardOf(c) \in filesBefore
       \/ /\ outcome = "ConnectionError"
          /\ i <= Len(years) /\ countries_by_code # <<>> /\ Cell = c
          /\ resp[c] = "404"

\* A run reached the merge, and every cell the site lists has a file or
\* resolved to the 404 page.
Converged ==
    /\ pc = "merge"
    /\ \A c \in WebCells : Exists(ShardOf(c)) \/ resp[c] = "404"

TransientFailures ==
    \A c \in Cells : SF_vars(AtCell(c) /\ (FetchNotPlayed \/ FetchParsed))

====
